---- MODULE Spec2Model ----
(***************************************************************************)
(* Model of awesome_api (src/awesome_api/__init__.py): an application      *)
(* factory, create_app, that builds a Flask application and registers one  *)
(* view, hello, on "/".                                                    *)
(*                                                                         *)
(* The repository calls two framework entry points, Flask(__name__) and    *)
(* app.route("/"), and returns a dict from the view.  What those calls do  *)
(* is modelled here by the framework's documented behaviour:               *)
(*   - Flask(import_name) keeps the default static_folder "static" and so  *)
(*     registers the rule /static/<path:filename> (endpoint "static");     *)
(*   - app.route(rule) without methods= registers the rule for GET; the    *)
(*     router adds HEAD to every rule that has GET, and the application    *)
(*     adds OPTIONS, answered automatically;                               *)
(*   - URL matching looks at the path only; a path no rule matches is a    *)
(*     404, a path matched only by rules of other methods is a 405;        *)
(*   - a dict returned by a view is serialised by jsonify (sorted keys,    *)
(*     compact separators, trailing newline, mimetype application/json).   *)
(*                                                                         *)
(* A path is the sequence of its segments: "/" is <<>>, "/static/f" is     *)
(* <<"static", "f">>.  A JSON text is the sequence of its tokens.          *)
(***************************************************************************)
EXTENDS Naturals, Sequences, FiniteSets

VARIABLES apps, reqs

vars == <<apps, reqs>>

\* Bounds of the model.
MaxApps == 2
MaxReqs == 2

\* Inputs of the model: request methods, paths and contents.
Methods == {"GET", "HEAD", "POST", "OPTIONS"}

RootPath == <<>>

Paths == {RootPath, <<"static", "f">>, <<"nope">>}

Plain == [query |-> "", headers |-> {}, body |-> ""]

Contents ==
  { Plain,
    [query |-> "foo=bar", headers |-> {}, body |-> ""],
    [query |-> "", headers |-> {"X-Test"}, body |-> "x"] }

----------------------------------------------------------------------------
(* JSON texts as token sequences. *)

Str(s) == [t |-> "string", v |-> s]

Punct(c) == [t |-> "punct", v |-> c]

EmptyDict == [k \in {} |-> ""]

\* The keys the model's dicts use, in sorted order.
Keys == <<"count", "message">>

SortedKeys(S) == SelectSeq(Keys, LAMBDA k : k \in S)

RECURSIVE Members(_, _)
Members(ks, d) ==
  IF ks = <<>> THEN <<>>
  ELSE <<Str(ks[1]), Punct(":"), Str(d[ks[1]])>>
       \o (IF Len(ks) > 1 THEN <<Punct(",")>> ELSE <<>>)
       \o Members(Tail(ks), d)

\* json.dumps with sort_keys and compact separators.
dumps(d) == <<Punct("{")>> \o Members(SortedKeys(DOMAIN d), d) \o <<Punct("}")>>

Invalid == [ok |-> FALSE, value |-> EmptyDict]

With(d, k, v) == [x \in (DOMAIN d) \cup {k} |-> IF x = k THEN v ELSE d[x]]

\* The members of an object and its closing brace; toks starts after "{" or ",".
RECURSIVE ParseMembers(_, _)
ParseMembers(toks, acc) ==
  IF Len(toks) < 4 THEN Invalid
  ELSE IF toks[1].t # "string" \/ toks[2] # Punct(":") \/ toks[3].t # "string"
  THEN Invalid
  ELSE LET d == With(acc, toks[1].v, toks[3].v)
           rest == SubSeq(toks, 5, Len(toks))
       IN IF toks[4] = Punct("}")
          THEN (IF \A k \in 1..Len(rest) : rest[k] = Punct("\n")
                THEN [ok |-> TRUE, value |-> d] ELSE Invalid)
          ELSE IF toks[4] = Punct(",") THEN ParseMembers(rest, d)
          ELSE Invalid

\* json.loads of a flat object of strings; trailing whitespace is skipped.
loads(toks) ==
  IF Len(toks) < 2 \/ toks[1] # Punct("{") THEN Invalid
  ELSE IF toks[2] = Punct("}")
  THEN (IF \A k \in 3..Len(toks) : toks[k] = Punct("\n")
        THEN [ok |-> TRUE, value |-> EmptyDict] ELSE Invalid)
  ELSE ParseMembers(Tail(toks), EmptyDict)

----------------------------------------------------------------------------
(* The application factory. *)

\* The view's return value as a mutation would spell it.
hello_typo == [kind |-> "dict", dict |-> [message |-> "Welcome to Awesome API"], text |-> ""]

hello_dumped ==
  [kind |-> "str", dict |-> EmptyDict, text |-> "{\"message\": \"Welcome to Awesome API!\"}"]

\* def hello(): return {"message": "Welcome to Awesome API!"}
hello == [kind |-> "dict", dict |-> [message |-> "Welcome to Awesome API!"], text |-> ""]

route_methods_post == {"POST"}

route_methods_get_post == {"GET", "POST"}

\* @app.route("/") names no methods: the rule is registered for GET.
route_methods == {"GET"}

\* add_url_rule: HEAD accompanies GET, OPTIONS is added and answered
\* automatically unless the caller listed it.
add_url_rule(rule, endpoint, methods) ==
  [ rule |-> rule,
    endpoint |-> endpoint,
    methods |-> methods \cup (IF "GET" \in methods THEN {"HEAD"} ELSE {}) \cup {"OPTIONS"},
    provide_automatic_options |-> "OPTIONS" \notin methods ]

\* The files of the package's static folder: the package has none.
StaticFiles == {}

\* Flask(__name__): the application with its default static rule.
Flask ==
  [ url_map |-> {add_url_rule(<<"static", "<path:filename>">>, "static", {"GET"})},
    view_functions |-> [static |-> "send_static_file"] ]

route(app, rule, view) ==
  [ url_map |-> app.url_map \cup {add_url_rule(rule, view, route_methods)},
    view_functions |-> With(app.view_functions, view, view) ]

create_app_extra_route == route(route(Flask, RootPath, "hello"), <<"nope">>, "hello")

create_app == route(Flask, RootPath, "hello")

\* The application list after one more call of a factory that kept its
\* application in a module-level variable.
CreateAppShared(as) ==
  Append([i \in DOMAIN as |-> route(as[i], <<"nope">>, "hello")], create_app)

\* The application list after one more call of create_app.
CreateAppCall(as) == Append(as, create_app)

----------------------------------------------------------------------------
(* Requests and responses. *)

NoResponse == [status |-> 0, mimetype |-> "", data |-> <<>>, allow |-> {}]

NoMatch == [endpoint |-> "", provide_automatic_options |-> FALSE, exc |-> 0, allow |-> {}]

\* A request as the server hands it to the application a.
NewRequest(a, m, p, c) ==
  [ app |-> a, method |-> m, path |-> p,
    query |-> c.query, headers |-> c.headers, body |-> c.body,
    pc |-> "match", matched |-> NoMatch, response |-> NoResponse ]

\* The path the router would see if the query string were left on it.
path_info_with_query(req) ==
  IF req.query = "" THEN req.path ELSE Append(req.path, req.query)

\* The path the router matches: the request target without its query string.
path_info(req) == req.path

IsPathConverter(seg) == seg = "<path:filename>"

RuleMatches(rule, path) ==
  LET n == Len(rule.rule) IN
  IF n > 0 /\ IsPathConverter(rule.rule[n])
  THEN Len(path) >= n /\ \A k \in 1..(n - 1) : path[k] = rule.rule[k]
  ELSE path = rule.rule

\* MapAdapter.match: the rule of the path and method, else 405 with the
\* methods the path has, else 404.
match(app, req) ==
  LET matching == {r \in app.url_map : RuleMatches(r, path_info(req))}
      hit == {r \in matching : req.method \in r.methods}
      have_match_for == UNION {r.methods : r \in matching}
  IN IF hit # {}
     THEN LET r == CHOOSE x \in hit : TRUE
          IN [ endpoint |-> r.endpoint,
               provide_automatic_options |-> r.provide_automatic_options,
               exc |-> 0, allow |-> have_match_for ]
     ELSE IF have_match_for # {}
     THEN [NoMatch EXCEPT !.exc = 405, !.allow = have_match_for]
     ELSE [NoMatch EXCEPT !.exc = 404]

\* Pushing the request context matches the URL and keeps the outcome.
push(app, req) == [req EXCEPT !.matched = match(app, req), !.pc = "dispatch"]

Html(s) == <<[t |-> "html", v |-> s]>>

\* The response of an HTTP exception.
http_exception(code, allow) ==
  [ status |-> code, mimetype |-> "text/html; charset=utf-8",
    data |-> Html(IF code = 405 THEN "Method Not Allowed" ELSE "Not Found"),
    allow |-> IF code = 405 THEN allow ELSE {} ]

\* send_static_file: the named file of the static folder, or 404.
send_static_file(path) ==
  IF Tail(path) \in StaticFiles
  THEN [raised |-> 0, rv |-> [kind |-> "file", dict |-> EmptyDict, text |-> "f"]]
  ELSE [raised |-> 404, rv |-> [kind |-> "none", dict |-> EmptyDict, text |-> ""]]

\* Calling the view function registered for the endpoint.
call_view(app, req) ==
  LET view == app.view_functions[req.matched.endpoint]
  IN IF view = "hello" THEN [raised |-> 0, rv |-> hello]
     ELSE send_static_file(req.path)

\* make_response: a dict goes through jsonify, a str is an HTML body.
make_response(rv) ==
  IF rv.kind = "dict"
  THEN [ status |-> 200, mimetype |-> "application/json",
         data |-> dumps(rv.dict) \o <<Punct("\n")>>, allow |-> {} ]
  ELSE [ status |-> 200, mimetype |-> "text/html; charset=utf-8",
         data |-> <<[t |-> "text", v |-> rv.text]>>, allow |-> {} ]

\* The automatic answer to OPTIONS: an empty 200 listing the methods.
make_default_options_response(req) ==
  [ status |-> 200, mimetype |-> "text/html; charset=utf-8",
    data |-> <<>>, allow |-> req.matched.allow ]

\* dispatch_request and the handling of what it raises.
dispatch_request(app, req) ==
  IF req.matched.exc # 0
  THEN http_exception(req.matched.exc, req.matched.allow)
  ELSE IF req.method = "OPTIONS" /\ req.matched.provide_automatic_options
  THEN make_default_options_response(req)
  ELSE LET out == call_view(app, req)
       IN IF out.raised # 0 THEN http_exception(out.raised, {})
          ELSE make_response(out.rv)

\* What goes on the wire: a HEAD response keeps its headers, not its body.
sent(method, resp) == IF method = "HEAD" THEN [resp EXCEPT !.data = <<>>] ELSE resp

full_dispatch_request(app, req) ==
  [req EXCEPT !.response = sent(req.method, dispatch_request(app, req)), !.pc = "done"]

\* An application whose view unregisters its rule once it has answered.
after_request_unregister(app, req) ==
  IF req.matched.endpoint = "hello"
  THEN [app EXCEPT !.url_map = {r \in @ : r.endpoint # "hello"}]
  ELSE app

\* The application after a request: neither the view nor the dispatch of a
\* request assigns to anything of the application.
after_request(app, req) == app

----------------------------------------------------------------------------
(* The state machine. *)

Init == apps = <<>> /\ reqs = <<>>

\* app = create_app()
CreateApp ==
  /\ Len(apps) < MaxApps
  /\ apps' = CreateAppCall(apps)
  /\ UNCHANGED reqs

\* One request served from receipt to response, as by the test client.
Request(a, m, p, c) ==
  LET req == push(apps[a], NewRequest(a, m, p, c)) IN
  /\ Len(reqs) < MaxReqs
  /\ reqs' = Append(reqs, full_dispatch_request(apps[a], req))
  /\ apps' = [apps EXCEPT ![a] = after_request(@, req)]

Next ==
  \/ CreateApp
  \/ \E a \in DOMAIN apps, m \in Methods, p \in Paths, c \in Contents : Request(a, m, p, c)

Spec == Init /\ [][Next]_vars

\* Requests served by concurrent workers of one application: each request
\* is received, matched and dispatched in steps of its own.
InitServing == apps = <<create_app>> /\ reqs = <<>>

Receive(a, m, p, c) ==
  /\ Len(reqs) < MaxReqs
  /\ reqs' = Append(reqs, NewRequest(a, m, p, c))
  /\ UNCHANGED apps

Match(i) ==
  /\ reqs[i].pc = "match"
  /\ reqs' = [reqs EXCEPT ![i] = push(apps[reqs[i].app], @)]
  /\ UNCHANGED apps

Dispatch(i) ==
  /\ reqs[i].pc = "dispatch"
  /\ reqs' = [reqs EXCEPT ![i] = full_dispatch_request(apps[reqs[i].app], @)]
  /\ apps' = [apps EXCEPT ![reqs[i].app] = after_request(@, reqs[i])]

NextServing ==
  \/ \E a \in DOMAIN apps, m \in Methods, p \in Paths, c \in Contents : Receive(a, m, p, c)
  \/ \E i \in DOMAIN reqs : Match(i)
  \/ \E i \in DOMAIN reqs : Dispatch(i)

SpecServing == InitServing /\ [][NextServing]_vars

----------------------------------------------------------------------------
(* The claims. *)

\* What the test expects of GET /: response.json and response.status_code.
ExpectedBody == [message |-> "Welcome to Awesome API!"]

ExpectedStatus == 200

Done(r) == r.pc = "done"

IsGetRoot(r) == Done(r) /\ r.method = "GET" /\ r.path = RootPath

IsPostRoot(r) == Done(r) /\ r.method = "POST" /\ r.path = RootPath

SameRequest(r, q) ==
  /\ r.app = q.app /\ r.method = q.method /\ r.path = q.path
  /\ r.query = q.query /\ r.headers = q.headers /\ r.body = q.body

IsPlain(r) == r.query = "" /\ r.headers = {} /\ r.body = ""

\* The requests that finish in this step.
Finishing(i) == Done(reqs'[i]) /\ (i \in DOMAIN reqs => ~Done(reqs[i]))

\* C1: every GET / served by an application of create_app() is answered
\* with status 200; the view raised nothing and no error response stands in.
C1_GetRootIs200 ==
  \A i \in DOMAIN reqs :
    IsGetRoot(reqs[i]) =>
      /\ reqs[i].response.status = ExpectedStatus
      /\ reqs[i].matched.exc = 0
      /\ reqs[i].matched.endpoint = "hello"

C1_Witness ==
  \E i \in DOMAIN reqs : IsGetRoot(reqs[i]) /\ reqs[i].response.status = 200

\* C2: the body of every response to GET / parses as JSON to exactly the
\* mapping {"message": "Welcome to Awesome API!"}: that key, that value, no
\* other key.
C2_GetRootBody ==
  \A i \in DOMAIN reqs :
    IsGetRoot(reqs[i]) =>
      LET parsed == loads(reqs[i].response.data)
      IN /\ parsed.ok
         /\ DOMAIN parsed.value = {"message"}
         /\ parsed.value = ExpectedBody

C2_Witness ==
  \E i \in DOMAIN reqs :
    /\ IsGetRoot(reqs[i])
    /\ loads(reqs[i].response.data).ok
    /\ "message" \in DOMAIN loads(reqs[i].response.data).value

\* A request the application recognizes: answered by a rule of its route
\* table, not by the router's 404 or 405.
Recognized(r) == Done(r) /\ r.response.status \notin {404, 405}

\* C3 as stated: the application has exactly one route, GET /; no other
\* path and no other method on / is recognized.
C3_OnlyGetRoot ==
  /\ \A a \in DOMAIN apps : Cardinality(apps[a].url_map) = 1
  /\ \A i \in DOMAIN reqs :
       Recognized(reqs[i]) => reqs[i].method = "GET" /\ reqs[i].path = RootPath

HelloRule ==
  [ rule |-> RootPath, endpoint |-> "hello",
    methods |-> {"GET", "HEAD", "OPTIONS"}, provide_automatic_options |-> TRUE ]

StaticRule ==
  [ rule |-> <<"static", "<path:filename>">>, endpoint |-> "static",
    methods |-> {"GET", "HEAD", "OPTIONS"}, provide_automatic_options |-> TRUE ]

\* C3 amended: create_app() itself registers exactly one route, / bound to
\* hello; beside it the route table holds only the framework's default rule
\* /static/<path:filename>.  On / the methods GET, HEAD and OPTIONS are
\* answered with 200 (HEAD and OPTIONS are the framework's additions) and
\* every other method with 405; a path outside / and /static/ is a 404.
C3_RoutesOfApp ==
  /\ \A a \in DOMAIN apps :
       /\ apps[a].url_map = {HelloRule, StaticRule}
       /\ {r \in apps[a].url_map : r.endpoint = "hello"} = {HelloRule}
  /\ \A i \in DOMAIN reqs :
       Done(reqs[i]) =>
         /\ reqs[i].path = RootPath =>
              reqs[i].response.status =
                (IF reqs[i].method \in {"GET", "HEAD", "OPTIONS"} THEN 200 ELSE 405)
         /\ (reqs[i].path # RootPath /\ ~RuleMatches(StaticRule, reqs[i].path)) =>
              reqs[i].response.status = 404

C3_Witness ==
  \E i \in DOMAIN reqs :
    /\ Done(reqs[i]) /\ reqs[i].method = "HEAD" /\ reqs[i].path = RootPath
    /\ reqs[i].response.status = 200
    /\ Cardinality(apps[reqs[i].app].url_map) = 2

C5_PostRootNotAllowed ==
  [][ \A i \in DOMAIN reqs' :
        (Finishing(i) /\ IsPostRoot(reqs'[i])) =>
          /\ reqs'[i].response.status = 405
          /\ reqs'[i].matched.endpoint # "hello"
          /\ reqs'[i].response.mimetype # "application/json"
          /\ ~loads(reqs'[i].response.data).ok
          /\ "GET" \in reqs'[i].response.allow
          /\ apps' = apps ]_vars

C5_Witness ==
  \E i \in DOMAIN reqs : IsPostRoot(reqs[i]) /\ reqs[i].response.status = 405

\* C6: a GET / with a query string, headers or a body gets the same status
\* and the same body as a plain GET / to the same application.
C6_ContentsIgnored ==
  \A i, j \in DOMAIN reqs :
    ( /\ IsGetRoot(reqs[i]) /\ IsGetRoot(reqs[j])
      /\ reqs[i].app = reqs[j].app /\ IsPlain(reqs[j]) ) =>
      /\ reqs[i].response.status = reqs[j].response.status
      /\ reqs[i].response.data = reqs[j].response.data

C6_Witness ==
  \E i, j \in DOMAIN reqs :
    /\ IsGetRoot(reqs[i]) /\ IsGetRoot(reqs[j])
    /\ reqs[i].app = reqs[j].app /\ IsPlain(reqs[j])
    /\ reqs[i].query = "foo=bar"

\* C7: every response to GET / has the content type application/json.
C7_JsonContentType ==
  \A i \in DOMAIN reqs :
    IsGetRoot(reqs[i]) => reqs[i].response.mimetype = "application/json"

C7_Witness ==
  \E i \in DOMAIN reqs :
    /\ IsGetRoot(reqs[i]) /\ reqs[i].headers # {}
    /\ reqs[i].response.mimetype = "application/json"

\* C8: with requests handled in any interleaving, every GET / still gets
\* status 200 and the fixed body, a step of one request writes nothing of
\* the application and nothing of another request, and so nothing a request
\* reads is written by another.
C8_Independent ==
  /\ [](\A i \in DOMAIN reqs :
          IsGetRoot(reqs[i]) =>
            /\ reqs[i].response.status = 200
            /\ loads(reqs[i].response.data) = [ok |-> TRUE, value |-> ExpectedBody])
  /\ [][ /\ apps' = apps
         /\ \A i, j \in DOMAIN reqs :
              (reqs'[i] # reqs[i] /\ reqs'[j] # reqs[j]) => i = j ]_vars

C8_Witness ==
  \E i, j \in DOMAIN reqs :
    /\ i < j
    /\ reqs[i].pc = "dispatch"
    /\ IsGetRoot(reqs[j]) /\ reqs[j].response.status = 200

\* C9: every call of create_app() returns an application with the same
\* route table, and neither a further call nor a request served by one
\* application changes an application returned before or a response given
\* before.
C9_CreateAppFrame ==
  /\ [](\A a, b \in DOMAIN apps :
          /\ apps[a].url_map = apps[b].url_map
          /\ apps[a].view_functions = apps[b].view_functions)
  /\ [][ /\ \A a \in DOMAIN apps : a \in DOMAIN apps' /\ apps'[a] = apps[a]
         /\ \A i \in DOMAIN reqs : i \in DOMAIN reqs' /\ reqs'[i] = reqs[i]
         /\ Len(apps') <= Len(apps) + 1 ]_vars

C9_Witness ==
  /\ Len(apps) = 2
  /\ \E i, j \in DOMAIN reqs :
       /\ reqs[i].app = 1 /\ reqs[j].app = 2
       /\ IsGetRoot(reqs[i]) /\ IsGetRoot(reqs[j])
       /\ reqs[i].response = reqs[j].response

====
